---- MODULE Spec2Model ----
(***************************************************************************)
(* Model of file_checker_api/app.py: the status probe (app_status) and the *)
(* upload handler (check_file_list), several requests running concurrently *)
(* against one shared filesystem.                                          *)
(*                                                                         *)
(* A path is the sequence of its components from the filesystem root.      *)
(* A file content is a sequence of bytes.  Each request is split at the    *)
(* points where the host may interleave it with another request: request   *)
(* arrival (uuid4), makedirs, open, every chunk copied, the finally        *)
(* clause, and the validator call.                                         *)
(***************************************************************************)
EXTENDS Integers, Sequences, FiniteSets, TLC

\* ---------------------------------------------------------------- bounds
NumRequests == 2          \* requests the host serves concurrently
MaxFiles == 2             \* uploaded files per request
StreamLen == 2            \* bytes (= chunks) per uploaded stream
MaxProbes == 2            \* status probes observed

Requests == 1..NumRequests
Ids == {"u1", "u2"}       \* values uuid4() may return
Verdicts == {"accepted", "rejected"}   \* values the validator may return

\* ------------------------------------------------------------- constants
InputRoot == <<"home", "app", "input">>
SpecName == "bodc"
AppStatusResultMut == {"KO"}
AppStatusResult == {"OK"}

\* Client-supplied file names, as sequences of path components.
FileNames == {<<"a">>, <<"b">>, <<".", "a">>, <<"..", "u2", "a">>}

UploadLists == UNION {[1..n -> FileNames] : n \in 0..MaxFiles}

\* The byte stream of the i-th upload of request r (distinct per upload).
Stream(r, i) == [k \in 1..StreamLen |-> 100 * r + 10 * i + k]

\* ------------------------------------------------------------ path algebra
NoPath == <<"">>          \* result of a failed path resolution

Parent(p) == IF p = <<>> THEN <<>> ELSE SubSeq(p, 1, Len(p) - 1)

Prefixes(p) == {SubSeq(p, 1, k) : k \in 0..Len(p)}

NotDot(c) == c # "."

RequestDir(id) == Append(InputRoot, id)

\* Path.joinpath: an absolute argument (leading "/") replaces the base, "."
\* components are dropped, ".." components are kept.
JoinPath(dir, name) ==
  IF name # <<>> /\ Head(name) = "/"
    THEN SelectSeq(Tail(name), NotDot)
    ELSE dir \o SelectSeq(name, NotDot)

\* The operating system's resolution of an absolute path: every component
\* is looked up in a directory; ".." moves to the parent.
RECURSIVE Walk(_, _, _)
Walk(ds, cur, comps) ==
  IF comps = <<>> THEN cur
  ELSE IF cur \notin ds THEN NoPath
  ELSE IF Head(comps) = ".." THEN Walk(ds, Parent(cur), Tail(comps))
  ELSE Walk(ds, Append(cur, Head(comps)), Tail(comps))

\* The destination of open(request_file_dir.joinpath(filename), "wb"), or
\* NoPath when the open raises (missing directory, or the path is a
\* directory).
OpenTarget(ds, id, name) ==
  LET t == Walk(ds, <<>>, JoinPath(RequestDir(id), name))
  IN IF t = NoPath \/ t \in ds \/ Parent(t) \notin ds THEN NoPath ELSE t

\* Content of the destination right after open(..., "wb"): truncated.
OpenContentKeep(fs, t) == IF t \in DOMAIN fs THEN fs[t] ELSE <<>>
OpenContent(fs, t) == <<>>

\* One write of byte b at offset o of a file with content c (a gap left by
\* a concurrent truncation reads as zero bytes).
WriteAt(c, o, b) ==
  LET n == IF Len(c) > o + 1 THEN Len(c) ELSE o + 1
  IN [k \in 1..n |-> IF k = o + 1 THEN b ELSE IF k <= Len(c) THEN c[k] ELSE 0]

\* Path.glob("*"): the entries directly under directory d.
GlobAll(ds, fs, d) == ds \cup DOMAIN fs
Glob(ds, fs, d) == {p \in ds \cup DOMAIN fs : p # <<>> /\ Parent(p) = d}

WrapResults(v) == [results |-> v]

\* ------------------------------------------------------- control transfer
\* The finally clause closes the stream whether or not an exception is
\* pending.
ClosedAfterFinallyNoExc(cl, i, exc) == IF exc THEN cl ELSE cl \cup {i}
ClosedAfterFinally(cl, i, exc) == cl \cup {i}

\* Where control goes after the finally clause: a pending exception
\* propagates out of the handler, otherwise the loop continues.
AfterFinallySwallow(exc, i, n) == IF i < n THEN "open" ELSE "validate"
AfterFinallyEarly(exc, i, n) == IF exc THEN "error" ELSE "validate"
AfterFinallyCatch(exc, i, n) ==
  IF exc THEN "validate" ELSE IF i < n THEN "open" ELSE "validate"
AfterFinally(exc, i, n) ==
  IF exc THEN "error" ELSE IF i < n THEN "open" ELSE "validate"

\* Where control goes after makedirs: into the loop, or past an empty one.
AfterMakedirs(n) == IF n = 0 THEN "validate" ELSE "open"

VARIABLES
  dirs,         \* directories of the filesystem (set of paths)
  files,        \* regular files: path -> content
  pc,           \* request -> position in check_file_list
  upl,          \* request -> uploaded file names, in client order
  rid,          \* request -> request_id
  idx,          \* request -> loop position (1-based), 0 before the loop
  fd,           \* request -> destination open for writing, or NoPath
  off,          \* request -> bytes copied to the open destination
  exc,          \* request -> an exception is pending in the try block
  closed,       \* request -> indices whose source stream is closed
  response,     \* request -> response bodies returned (at most one)
  statusResp,   \* body of the latest status probe ({} before the first)
  statusCalls,  \* number of status probes served
  \* history of the run, read by the properties only
  attempted,    \* request -> indices whose open was attempted
  copied,       \* request -> indices whose copy ran to the end of stream
  written,      \* request -> destinations the request opened for writing
  calls,        \* request -> validator invocations [paths, spec, ret]
  enumForeign,  \* request -> <<q, p>>: enumerated path p, written before by q
  failed,       \* request -> the step that raised ("none" if none)
  failIdx       \* request -> loop position at which it raised

fsvars == <<dirs, files>>
reqvars == <<pc, upl, rid, idx, fd, off, exc, closed, response>>
histvars == <<attempted, copied, written, calls, enumForeign, failed, failIdx>>
probevars == <<statusResp, statusCalls>>
vars == <<fsvars, reqvars, histvars, probevars>>

Init ==
  /\ dirs = Prefixes(InputRoot)
  /\ files = <<>>
  /\ pc = [r \in Requests |-> "idle"]
  /\ upl = [r \in Requests |-> <<>>]
  /\ rid = [r \in Requests |-> "u1"]
  /\ idx = [r \in Requests |-> 0]
  /\ fd = [r \in Requests |-> NoPath]
  /\ off = [r \in Requests |-> 0]
  /\ exc = [r \in Requests |-> FALSE]
  /\ closed = [r \in Requests |-> {}]
  /\ response = [r \in Requests |-> <<>>]
  /\ statusResp = {}
  /\ statusCalls = 0
  /\ attempted = [r \in Requests |-> {}]
  /\ copied = [r \in Requests |-> {}]
  /\ written = [r \in Requests |-> {}]
  /\ calls = [r \in Requests |-> <<>>]
  /\ enumForeign = [r \in Requests |-> {}]
  /\ failed = [r \in Requests |-> "none"]
  /\ failIdx = [r \in Requests |-> 0]

\* ------------------------------------------------------------- GET /
app_status ==
  /\ statusCalls < MaxProbes
  /\ statusResp' = AppStatusResult
  /\ statusCalls' = statusCalls + 1
  /\ UNCHANGED <<fsvars, reqvars, histvars>>

\* --------------------------------------------------- POST /check-files
\* The request arrives with its file list; request_id = uuid4().
Arrive(r) ==
  /\ pc[r] = "idle"
  /\ \E fl \in UploadLists, id \in Ids :
       /\ upl' = [upl EXCEPT ![r] = fl]
       /\ rid' = [rid EXCEPT ![r] = id]
  /\ pc' = [pc EXCEPT ![r] = "mkdir"]
  /\ UNCHANGED <<fsvars, idx, fd, off, exc, closed, response, histvars, probevars>>

Raise(r, step) ==
  /\ pc' = [pc EXCEPT ![r] = "error"]
  /\ failed' = [failed EXCEPT ![r] = step]
  /\ failIdx' = [failIdx EXCEPT ![r] = idx[r]]

\* os.makedirs(request_file_dir) succeeds: the directory is new.
MakedirsOk(r) ==
  /\ pc[r] = "mkdir"
  /\ RequestDir(rid[r]) \notin dirs \cup DOMAIN files
  /\ dirs' = dirs \cup Prefixes(RequestDir(rid[r]))
  /\ idx' = [idx EXCEPT ![r] = IF Len(upl[r]) = 0 THEN 0 ELSE 1]
  /\ pc' = [pc EXCEPT ![r] = AfterMakedirs(Len(upl[r]))]
  /\ UNCHANGED <<files, upl, rid, fd, off, exc, closed, response, histvars, probevars>>

\* os.makedirs raises: the name exists, or the operating system refuses.
MakedirsFail(r) ==
  /\ pc[r] = "mkdir"
  /\ Raise(r, "mkdir")
  /\ UNCHANGED <<fsvars, upl, rid, idx, fd, off, exc, closed, response,
                 attempted, copied, written, calls, enumForeign, probevars>>

\* open(..., "wb") succeeds: the destination is created or truncated.
OpenOk(r) ==
  /\ pc[r] = "open"
  /\ LET t == OpenTarget(dirs, rid[r], upl[r][idx[r]])
     IN /\ t # NoPath
        /\ files' = [p \in DOMAIN files \cup {t} |->
                       IF p = t THEN OpenContent(files, t) ELSE files[p]]
        /\ fd' = [fd EXCEPT ![r] = t]
        /\ written' = [written EXCEPT ![r] = @ \cup {t}]
  /\ off' = [off EXCEPT ![r] = 0]
  /\ attempted' = [attempted EXCEPT ![r] = @ \cup {idx[r]}]
  /\ pc' = [pc EXCEPT ![r] = "copy"]
  /\ UNCHANGED <<dirs, upl, rid, idx, exc, closed, response, copied, calls,
                 enumForeign, failed, failIdx, probevars>>

\* open raises: control enters the finally clause with the exception pending.
OpenFail(r) ==
  /\ pc[r] = "open"
  /\ attempted' = [attempted EXCEPT ![r] = @ \cup {idx[r]}]
  /\ exc' = [exc EXCEPT ![r] = TRUE]
  /\ failed' = [failed EXCEPT ![r] = "open"]
  /\ failIdx' = [failIdx EXCEPT ![r] = idx[r]]
  /\ pc' = [pc EXCEPT ![r] = "finally"]
  /\ UNCHANGED <<fsvars, upl, rid, idx, fd, off, closed, response, copied,
                 written, calls, enumForeign, probevars>>

\* shutil.copyfileobj copies the next chunk; after the last one the with
\* block closes the destination.
CopyChunk(r) ==
  /\ pc[r] = "copy"
  /\ off[r] < StreamLen
  /\ files' = [files EXCEPT ![fd[r]] = WriteAt(@, off[r], Stream(r, idx[r])[off[r] + 1])]
  /\ off' = [off EXCEPT ![r] = @ + 1]
  /\ IF off[r] + 1 = StreamLen
       THEN /\ pc' = [pc EXCEPT ![r] = "finally"]
            /\ fd' = [fd EXCEPT ![r] = NoPath]
            /\ copied' = [copied EXCEPT ![r] = @ \cup {idx[r]}]
       ELSE UNCHANGED <<pc, fd, copied>>
  /\ UNCHANGED <<dirs, upl, rid, idx, exc, closed, response, attempted, written,
                 calls, enumForeign, failed, failIdx, probevars>>

\* A read or a write of the copy raises: the with block closes the
\* destination, keeping what was written so far.
CopyFail(r) ==
  /\ pc[r] = "copy"
  /\ exc' = [exc EXCEPT ![r] = TRUE]
  /\ fd' = [fd EXCEPT ![r] = NoPath]
  /\ failed' = [failed EXCEPT ![r] = "copy"]
  /\ failIdx' = [failIdx EXCEPT ![r] = idx[r]]
  /\ pc' = [pc EXCEPT ![r] = "finally"]
  /\ UNCHANGED <<fsvars, upl, rid, idx, off, closed, response, attempted, copied,
                 written, calls, enumForeign, probevars>>

\* finally: upload_file.file.close(); then the loop continues or the
\* pending exception leaves the handler.
Finally(r) ==
  /\ pc[r] = "finally"
  /\ closed' = [closed EXCEPT ![r] = ClosedAfterFinally(@, idx[r], exc[r])]
  /\ pc' = [pc EXCEPT ![r] = AfterFinally(exc[r], idx[r], Len(upl[r]))]
  /\ idx' = [idx EXCEPT ![r] =
               IF AfterFinally(exc[r], idx[r], Len(upl[r])) = "open" THEN @ + 1 ELSE @]
  /\ UNCHANGED <<fsvars, upl, rid, fd, off, exc, response, attempted, copied,
                 written, calls, enumForeign, failed, failIdx, probevars>>

\* FileChecker(...) is built and check_files(glob("*"), "bodc") returns v;
\* the handler returns {"results": v}.
CheckOk(r) ==
  /\ pc[r] = "validate"
  /\ \E v \in Verdicts :
       /\ calls' = [calls EXCEPT ![r] =
            Append(@, [paths |-> Glob(dirs, files, RequestDir(rid[r])),
                       spec |-> SpecName, ret |-> <<v>>])]
       /\ response' = [response EXCEPT ![r] = Append(@, WrapResults(v))]
  /\ enumForeign' = [enumForeign EXCEPT ![r] =
       {qp \in (Requests \ {r}) \X Glob(dirs, files, RequestDir(rid[r])) :
          qp[2] \in written[qp[1]]}]
  /\ pc' = [pc EXCEPT ![r] = "done"]
  /\ UNCHANGED <<fsvars, upl, rid, idx, fd, off, exc, closed, attempted, copied,
                 written, failed, failIdx, probevars>>

\* check_files raises after being invoked.
CheckFail(r) ==
  /\ pc[r] = "validate"
  /\ calls' = [calls EXCEPT ![r] =
       Append(@, [paths |-> Glob(dirs, files, RequestDir(rid[r])),
                  spec |-> SpecName, ret |-> <<>>])]
  /\ enumForeign' = [enumForeign EXCEPT ![r] =
       {qp \in (Requests \ {r}) \X Glob(dirs, files, RequestDir(rid[r])) :
          qp[2] \in written[qp[1]]}]
  /\ Raise(r, "check")
  /\ UNCHANGED <<fsvars, upl, rid, idx, fd, off, exc, closed, response, attempted,
                 copied, written, probevars>>

\* The FileChecker constructor raises: check_files is never invoked.
CheckerInitFail(r) ==
  /\ pc[r] = "validate"
  /\ Raise(r, "init")
  /\ UNCHANGED <<fsvars, upl, rid, idx, fd, off, exc, closed, response, attempted,
                 copied, written, calls, enumForeign, probevars>>

check_file_list(r) ==
  \/ Arrive(r)
  \/ MakedirsOk(r)
  \/ MakedirsFail(r)
  \/ OpenOk(r)
  \/ OpenFail(r)
  \/ CopyChunk(r)
  \/ CopyFail(r)
  \/ Finally(r)
  \/ CheckOk(r)
  \/ CheckFail(r)
  \/ CheckerInitFail(r)

Next ==
  \/ app_status
  \/ \E r \in Requests : check_file_list(r)

Spec == Init /\ [][Next]_vars

\* ------------------------------------------------------------ properties
Last(s) == s[Len(s)]

\* The entries directly under the directory of request r.
Under(r) ==
  {p \in dirs \cup DOMAIN files :
     /\ Len(p) = Len(InputRoot) + 2
     /\ SubSeq(p, 1, Len(p) - 1) = InputRoot \o <<rid[r]>>}

Distinct(s) == \A i, j \in 1..Len(s) : i # j => s[i] # s[j]

IsPermutation(s, t) ==
  /\ Len(s) = Len(t)
  /\ \E f \in [1..Len(s) -> 1..Len(s)] :
       /\ \A i, j \in 1..Len(s) : i # j => f[i] # f[j]
       /\ \A i \in 1..Len(s) : t[i] = s[f[i]]

BaseNames(ps) == {Last(p) : p \in ps}

\* C1: for two requests with distinct request identifiers, no file written
\* by one is in the directory enumeration the other passes to the validator.
CEX_C1 ==
  \A r, q \in Requests :
    (r # q /\ rid[r] # rid[q]) =>
      \A p \in UNION {c.paths : c \in {calls[r][k] : k \in 1..Len(calls[r])}} :
        <<q, p>> \notin enumForeign[r]

\* C2: when a request with N pairwise distinct file names succeeds, exactly
\* N files exist under its directory and each upload's content is there in
\* full.
CompleteAtReturn(r) ==
  Distinct(upl[r]) =>
    /\ Cardinality(Under(r)) = Len(upl[r])
    /\ \A i \in 1..Len(upl[r]) :
         \E p \in Under(r) : p \in DOMAIN files /\ files[p] = Stream(r, i)

CEX_C2 ==
  [][\A r \in Requests :
       (pc[r] # "done" /\ pc'[r] = "done") => CompleteAtReturn(r)']_vars

\* C3: a successful request invoked the validator exactly once, with the
\* entries directly under its directory and the spec name "bodc", and its
\* response is {"results": v} for the value v that invocation returned.
T_C3 ==
  /\ [](\A r \in Requests :
          pc[r] = "done" =>
            /\ Len(calls[r]) = 1
            /\ calls[r][1].spec = "bodc"
            /\ Len(calls[r][1].ret) = 1
            /\ response[r] = <<[results |-> calls[r][1].ret[1]]>>)
  /\ [][\A r \in Requests :
          calls'[r] # calls[r] => Last(calls'[r]).paths = Under(r)]_vars

W_C3 ==
  \E r \in Requests :
    /\ pc[r] = "done"
    /\ Cardinality(calls[r][1].paths) = 2
    /\ response[r] = <<[results |-> "rejected"]>>

\* C4: the set of paths the validator receives equals the set of files
\* written for the request, and is the same for any permutation of the
\* upload list.
CEX_C4 ==
  /\ \A r \in Requests : pc[r] = "done" => calls[r][1].paths = written[r]
  /\ \A r, q \in Requests :
       (pc[r] = "done" /\ pc[q] = "done" /\ IsPermutation(upl[r], upl[q])) =>
         BaseNames(calls[r][1].paths) = BaseNames(calls[q][1].paths)

\* C5: once makedirs, an open, a copy or the validator has raised, the
\* request heads for the error outcome only: it never resumes, never
\* succeeds and never returns a body.
T_C5 ==
  \A r \in Requests :
    failed[r] # "none" =>
      /\ pc[r] \in {"finally", "error"}
      /\ response[r] = <<>>

W_C5 ==
  \E r, q \in Requests :
    /\ failed[r] = "copy" /\ pc[r] = "error" /\ off[r] = 1
    /\ failed[q] = "check" /\ pc[q] = "error" /\ Len(calls[q]) = 1

\* C6: every status probe returns {"OK"} and changes nothing but the
\* probe's own response, whatever the requests are doing.
T_C6 ==
  /\ [](statusCalls > 0 => statusResp = {"OK"})
  /\ [][statusCalls' # statusCalls =>
          /\ statusResp' = {"OK"}
          /\ UNCHANGED <<fsvars, reqvars, histvars>>]_vars

W_C6 ==
  /\ statusCalls = MaxProbes
  /\ statusResp = {"OK"}
  /\ \E r \in Requests : pc[r] = "copy" /\ off[r] = 1

\* C7: the source stream of every upload whose copy was attempted is closed
\* as soon as control has left that upload's try/finally statement.
T_C7 ==
  \A r \in Requests :
    \A i \in attempted[r] :
      (idx[r] > i \/ pc[r] \in {"validate", "done", "error"}) => i \in closed[r]

W_C7 ==
  \E r, q \in Requests :
    /\ failed[r] = "copy" /\ off[r] = 1 /\ pc[r] = "error" /\ failIdx[r] \in closed[r]
    /\ failed[q] = "open" /\ pc[q] = "error" /\ failIdx[q] \in closed[q]

\* C8: after the open or copy of the k-th upload raised, no later upload is
\* attempted and the validator is not invoked; the request directory and
\* every file the request opened for writing stay on disk.
T_C8 ==
  \A r \in Requests :
    /\ failed[r] \in {"open", "copy"} =>
         /\ \A j \in attempted[r] : j <= failIdx[r]
         /\ calls[r] = <<>>
    /\ (pc[r] \notin {"idle", "mkdir"} /\ failed[r] # "mkdir") =>
         RequestDir(rid[r]) \in dirs
    /\ written[r] \subseteq DOMAIN files

W_C8 ==
  \E r \in Requests :
    /\ failed[r] = "copy" /\ failIdx[r] = 1 /\ Len(upl[r]) = 2
    /\ pc[r] = "error"
    /\ \E p \in written[r] : Len(files[p]) = 1

\* C9: no upload is attempted before the request directory exists; an
\* upload is attempted only after every earlier one was copied in full and
\* its stream closed; the validator is invoked only after all of them were.
T_C9 ==
  \A r \in Requests :
    /\ attempted[r] # {} => (RequestDir(rid[r]) \in dirs /\ failed[r] # "mkdir")
    /\ \A i \in attempted[r] :
         \A j \in 1..(i - 1) : j \in attempted[r] /\ j \in copied[r] /\ j \in closed[r]
    /\ calls[r] # <<>> =>
         /\ copied[r] = 1..Len(upl[r])
         /\ closed[r] = 1..Len(upl[r])

W_C9 ==
  \E r \in Requests :
    /\ pc[r] = "done" /\ Len(upl[r]) = MaxFiles /\ Len(calls[r]) = 1

\* C10 (as stated): opening a destination the request has already written
\* leaves the content of that file as it was.
CEX_C10 ==
  [][\A r \in Requests :
       (pc[r] = "open" /\ pc'[r] = "copy" /\ fd'[r] \in written[r]) =>
         files'[fd'[r]] = files[fd'[r]]]_vars

\* C10 (amended): opening a destination the request has already written
\* succeeds and truncates that file to length zero.
T_C10 ==
  [][\A r \in Requests :
       (pc[r] = "open" /\ pc'[r] = "copy" /\ fd'[r] \in written[r]) =>
         files'[fd'[r]] = <<>>]_vars

W_C10 ==
  \E r \in Requests :
    /\ idx[r] = 2 /\ pc[r] = "copy" /\ off[r] = 0
    /\ upl[r][1] = upl[r][2]
    /\ 1 \in copied[r]
    /\ files[fd[r]] = <<>>

====
